---- MODULE Spec2Model ----
(***************************************************************************)
(* A model of the logquery package: the line parser (processLine), the     *)
(* source loader (processFile), the ingestion coordinator (processFiles /  *)
(* NewLogQuery) and the query engine (LogQuery.Query, logMerge,            *)
(* getRangeLogs).                                                          *)
(*                                                                         *)
(* A raw line is a sequence of chunks.  The chunks "[", "]" and " " stand  *)
(* for the characters the regular expression names literally; every other  *)
(* chunk is a piece of text holding no bracket.  A timestamp text is one   *)
(* chunk (its inner blank is of no concern to the pattern).                *)
(***************************************************************************)
EXTENDS Integers, Sequences, FiniteSets, TLC

\* ------------------------------------------------------------- bounds
\* The number of lines over all the files of a sampled file system.
MaxLogs == 4
\* Query limits (the entries argument): 0..MaxLimit.
MaxLimit == 2

\* ------------------------------------------------------------ LogLevel
Undefined == 0
Debug == 1
Info == 2
Warn == 3
Error == 4
Fatal == 5

\* The source keys the constructor is given, and a key it never sees.
SourceKeys == {"a", "b"}
UnknownKey == "zz"

Min(x, y) == IF x < y THEN x ELSE y

\* ------------------------------------------------------------ time.Parse
\* The text of the instant "hour h" of the sample day in the layout of
\* logFormat: month/day/year hour:minute:second.hundredths.
tsTok(h) == "02/28/2020 " \o ToString(h) \o ":00:00.00"

\* The layout's hour ("3") is an hour of the 12 hour clock: time.Parse
\* accepts 0..12 and reports an hour out of range above it.
HoursParsed == 0..12

\* time.Parse(logFormat, text) for the text made of the chunks inner:
\* [ok, t].  Only a single chunk that is a timestamp text in the layout
\* parses; the instant is measured in hours of the sample day.
parseTime(inner) ==
  IF Len(inner) = 1 /\ \E h \in HoursParsed : tsTok(h) = inner[1]
  THEN [ok |-> TRUE, t |-> CHOOSE h \in HoursParsed : tsTok(h) = inner[1]]
  ELSE [ok |-> FALSE, t |-> 0]

\* strings.ToLower on the words the sampled lines use.
toLower(w) ==
  CASE w = "DEBUG" -> "debug"
    [] w = "Info" -> "info"
    [] w = "INFO" -> "info"
    [] w = "Warn" -> "warn"
    [] w = "WARN" -> "warn"
    [] w = "ERROR" -> "error"
    [] w = "FATAL" -> "fatal"
    [] w = "Fatal" -> "fatal"
    [] OTHER -> w

\* ---------------------------------------------------------- logLineRegex
\* (\[.*\])(\[.*\]) (.*) matches with group 1 = line[s..p], group 2 =
\* line[p+1..q], the blank at q+1 and group 3 the rest, when s is in
\* groupStarts, p in groupJoins, q in groupEnds and s < p, p + 1 < q.
groupStarts(line) == { s \in DOMAIN line : line[s] = "[" }
groupJoins(line) ==
  { p \in DOMAIN line : p < Len(line) /\ line[p] = "]" /\ line[p + 1] = "[" }
groupEnds(line) ==
  { q \in DOMAIN line : q < Len(line) /\ line[q] = "]" /\ line[q + 1] = " " }

\* FindStringSubmatch: the leftmost match, each .* as long as it can be
\* (the first one first).  <<>> when the line does not match.
findStringSubmatch(line) ==
  LET J == groupJoins(line)
      E == groupEnds(line)
      starts == { s \in groupStarts(line) :
                    \E p \in J, q \in E : s < p /\ p + 1 < q }
  IN IF starts = {} THEN <<>>
     ELSE LET s == CHOOSE x \in starts : \A y \in starts : x <= y
              ps == { p \in J : s < p /\ \E q \in E : p + 1 < q }
              p == CHOOSE x \in ps : \A y \in ps : y <= x
              qs == { q \in E : p + 1 < q }
              q == CHOOSE x \in qs : \A y \in qs : y <= x
          IN << SubSeq(line, s, Len(line)),
                SubSeq(line, s, p),
                SubSeq(line, p + 1, q),
                SubSeq(line, q + 2, Len(line)) >>

\* The severity switch on strings.ToLower(matches[2]).
parseSeverity(tag) ==
  IF Len(tag) # 3 THEN Undefined
  ELSE LET w == toLower(tag[2])
       IN CASE w = "debug" -> Debug
            [] w = "info" -> Info
            [] w = "warn" -> Warn
            [] w = "error" -> Error
            [] w = "fatal" -> Fatal
            [] OTHER -> Undefined

\* The value processLine returns with an error.
NilLog == [Time |-> 0, Severity |-> Undefined, Log |-> <<>>, Key |-> "",
           TimeString |-> <<>>, SeverityString |-> <<>>]

\* processLine with no test of the severity after the switch.
processLine_noSeverityTest(rawLog, key) ==
  LET matches == findStringSubmatch(rawLog)
  IN IF Len(matches) # 4
     THEN [err |-> "log does not have proper structure", log |-> NilLog]
     ELSE LET tm == parseTime(SubSeq(matches[2], 2, Len(matches[2]) - 1))
              severity == parseSeverity(matches[3])
          IN IF ~tm.ok
             THEN [err |-> "timestamp was not parseable", log |-> NilLog]
             ELSE [err |-> "",
                   log |-> [Time |-> tm.t, Severity |-> severity,
                            Log |-> matches[4], Key |-> key,
                            TimeString |-> matches[2],
                            SeverityString |-> matches[3]]]

\* processLine(rawLog, key): [err, log]; err = "" is the nil error.
processLine(rawLog, key) ==
  LET matches == findStringSubmatch(rawLog)
  IN IF Len(matches) # 4
     THEN [err |-> "log does not have proper structure", log |-> NilLog]
     ELSE LET tm == parseTime(SubSeq(matches[2], 2, Len(matches[2]) - 1))
              severity == parseSeverity(matches[3])
          IN IF ~tm.ok
             THEN [err |-> "timestamp was not parseable", log |-> NilLog]
             ELSE IF severity = Undefined
             THEN [err |-> "severity was not parseable", log |-> NilLog]
             ELSE [err |-> "",
                   log |-> [Time |-> tm.t, Severity |-> severity,
                            Log |-> matches[4], Key |-> key,
                            TimeString |-> matches[2],
                            SeverityString |-> matches[3]]]

\* The loop of processFile over the lines the scanner delivers.
RECURSIVE scanLines(_, _)
scanLines(lines, key) ==
  IF lines = <<>> THEN <<>>
  ELSE LET r == processLine(Head(lines), key)
       IN IF r.err # "" THEN scanLines(Tail(lines), key)
          ELSE <<r.log>> \o scanLines(Tail(lines), key)

\* bufio.MaxScanTokenSize: the size of the buffer of a bufio.Scanner.
MaxScanTokenSize == 65536

\* A chunk that stands for a text of MaxScanTokenSize bytes.
LongText == "<text of 65536 bytes>"

chunkBytes(c) == IF c = LongText THEN MaxScanTokenSize ELSE Len(c)

RECURSIVE lineBytes(_)
lineBytes(line) ==
  IF line = <<>> THEN 0 ELSE chunkBytes(Head(line)) + lineBytes(Tail(line))

\* scanner.Scan() on a next line: the line is the token when it fits the
\* buffer; otherwise Scan returns false (ErrTooLong), as at the file's end.
scanOk(line) == lineBytes(line) < MaxScanTokenSize

\* The lines for which scanner.Scan() returns true, one after the other.
RECURSIVE scannedLines(_)
scannedLines(lines) ==
  IF lines = <<>> THEN <<>>
  ELSE IF ~scanOk(Head(lines)) THEN <<>>
  ELSE <<Head(lines)>> \o scannedLines(Tail(lines))

\* What is at a path with no file to open.
NoFile == [exists |-> FALSE, lines |-> <<>>]

\* processFile(filePath, key), file being what is at filePath: [err, logs].
processFile(file, key) ==
  IF ~file.exists
  THEN [err |-> "open: no such file or directory", logs |-> <<>>]
  ELSE [err |-> "", logs |-> scanLines(scannedLines(file.lines), key)]

\* --------------------------------------------------------------- state
VARIABLES
  processedLogs,        \* LogQuery.processedLogs: the registry
  pc,                   \* where Query is: idle, filter, merge, loop, done, panic
  start,                \* Query's arguments
  entries,
  logKeys,
  minSeverity,
  nextKey,              \* the index of the range loop over logKeys
  task,                 \* per index of logKeys, its filter goroutine
  mutex,                \* Query's mutex: 0, or the index of its holder
  processedFiles,       \* Query's result map, logsByKey inside logMerge
  fileOrderByFirstLog,  \* logMerge's head list
  rv,                   \* logMerge's output
  prev,                 \* what the call before, of the same arguments, returned
  logMapping,           \* NewLogQuery's argument: source key to path
  fs,                   \* the file system: path to lines, or to NoFile
  ctor,                 \* where processFiles is: range, wait, returned
  loader,               \* per source key, its loader goroutine
  loaded,               \* per source key, what its processFile returned
  rvFiles,              \* processFiles' result map rv
  loadMutex,            \* processFiles' mutex: "", or the key of its holder
  rawLog,               \* the line a call of processLine is given
  parseOut              \* what that call returned, once it has

qvars == << processedLogs, pc, start, entries, logKeys, minSeverity, nextKey,
            task, mutex, processedFiles, fileOrderByFirstLog, rv, prev >>
lvars == << logMapping, fs, ctor, loader, loaded, rvFiles, loadMutex >>
pvars == << rawLog, parseOut >>
vars == << qvars, lvars, pvars >>

\* A map with no key.
EmptyMap == [k \in {} |-> <<>>]

\* put adding v to the list already at the key.
put_appends(m, k, v) ==
  [x \in (DOMAIN m) \cup {k} |->
     IF x = k THEN (IF k \in DOMAIN m THEN m[k] \o v ELSE v) ELSE m[x]]

\* m[k] = v, for a key already there or not.
put(m, k, v) == [x \in (DOMAIN m) \cup {k} |-> IF x = k THEN v ELSE m[x]]

\* delete(m, k) leaving the key in the map.
deleteKey_keeps(m, k) == m

\* delete(m, k)
deleteKey(m, k) == [x \in (DOMAIN m) \ {k} |-> m[x]]

\* ------------------------------------------------------- sampled inputs
\* The severity tags of the sampled lines.
SampleTags == {"info", "FATAL"}

\* The hours of the timestamps of the sampled lines.
SampleHours == {1, 2}

\* Line i of a sampled file: a well-formed line of hour h and tag w.
mkLine(h, w, i) ==
  << "[", tsTok(h), "]", "[", w, "]", " ", "msg" \o ToString(i) >>

\* The raw line [stamp][tag] msg.
mkRaw(stamp, tag, msg) ==
  <<"[">> \o stamp \o <<"]", "[">> \o tag \o <<"]", " ">> \o msg

\* The well-formed lines a sampled file may hold as its line i.
GoodLines(i) == { mkLine(h, w, i) : h \in SampleHours, w \in SampleTags }

\* The files of exactly len lines, line i drawn from lineSet(i).
FilesOfLen(lineSet(_), len) ==
  { [exists |-> TRUE, lines |-> l] :
      l \in { f \in [1..len -> UNION { lineSet(i) : i \in 1..len }] :
                \A i \in 1..len : f[i] \in lineSet(i) } }

FilesUpTo(lineSet(_), n) ==
  UNION { FilesOfLen(lineSet, len) : len \in 0..n }

\* The path the sampled mapping gives a source key.
pathOf(k) == k \o ".log"

\* The longest sampled file: one line more than the largest limit.
MaxFileLen == MaxLimit + 1

\* The file systems sampled: a file at the path of "a" and a file, or
\* none, at the path of "b", MaxLogs lines in all.
FileSystems(lineSet(_)) ==
  UNION { { [p \in {pathOf(k) : k \in SourceKeys} |->
               IF p = pathOf("a") THEN fa ELSE fb] :
              fa \in FilesOfLen(lineSet, la),
              fb \in FilesUpTo(lineSet, Min(MaxFileLen, MaxLogs - la))
                       \cup {NoFile} }
          : la \in 0..Min(MaxFileLen, MaxLogs) }

\* What processFiles returns for a mapping and a file system: a key per
\* file that opens, with what processFile returns for it.
Registry(mapping, files) ==
  [ k \in { x \in DOMAIN mapping :
              processFile(files[mapping[x]], x).err = "" } |->
      processFile(files[mapping[k]], k).logs ]

\* The key lists a query is given.
SampleKeyLists ==
  { <<>>, <<"a">>, <<UnknownKey>>, <<"a", "b">>, <<"b", UnknownKey>> }

SampleStarts == {0, 1}
SampleMinSeverities == {Debug, Fatal}

\* ---------------------------------------------------------------- Query
\* lookup without its test of the key: any key is taken as present.
lookup_alwaysOk(m, k) ==
  IF k \in DOMAIN m THEN [ok |-> TRUE, logs |-> m[k]]
  ELSE [ok |-> TRUE, logs |-> <<>>]

\* logs, ok := m[k]
lookup(m, k) ==
  IF k \in DOMAIN m THEN [ok |-> TRUE, logs |-> m[k]]
  ELSE [ok |-> FALSE, logs |-> <<>>]

\* log.Time.After(start)
After(t, u) == t > u

\* matchesFilter with an entry at start itself let through.
matchesFilter_atStart(log, st, minSev) ==
  log.Time >= st /\ log.Severity >= minSev

\* The test of the filter loop.
matchesFilter(log, st, minSev) == After(log.Time, st) /\ log.Severity >= minSev

\* The loop of a filter goroutine from index i (0 based) with rv = acc.
RECURSIVE filterLoop(_, _, _, _, _, _)
filterLoop(logs, i, acc, st, n, minSev) ==
  IF i >= Len(logs) THEN acc
  ELSE IF i = n THEN acc
  ELSE filterLoop(logs, i + 1,
                  IF matchesFilter(logs[i + 1], st, minSev)
                  THEN Append(acc, logs[i + 1]) ELSE acc,
                  st, n, minSev)

\* filterLogs with the cap put on the entries kept, not on the index.
filterLogs_capMatches(logs, st, n, minSev) ==
  LET pass(e) == matchesFilter(e, st, minSev)
      kept == SelectSeq(logs, pass)
  IN SubSeq(kept, 1, Min(n, Len(kept)))

\* filterLogs with the cap tested one index late.
filterLogs_lateCap(logs, st, n, minSev) ==
  filterLoop(logs, 0, <<>>, st, n + 1, minSev)

filterLogs(logs, st, n, minSev) == filterLoop(logs, 0, <<>>, st, n, minSev)

\* No result of a call before.
NoResult == [returned |-> FALSE, logs |-> <<>>]

\* No call of processLine under way.
NotParsed == [called |-> FALSE, err |-> "", log |-> NilLog]

ParseIdle == rawLog = <<>> /\ parseOut = NotParsed

\* Query's locals before a call.
QueryIdle ==
  /\ pc = "idle"
  /\ start = 0 /\ entries = 0 /\ logKeys = <<>> /\ minSeverity = Undefined
  /\ nextKey = 1
  /\ task = <<>>
  /\ mutex = 0
  /\ processedFiles = EmptyMap
  /\ fileOrderByFirstLog = <<>>
  /\ rv = <<>>
  /\ prev = NoResult

\* The state after NewLogQuery has returned, for a sampled file system of
\* well-formed lines.
Init ==
  /\ logMapping = [k \in SourceKeys |-> pathOf(k)]
  /\ fs \in FileSystems(GoodLines)
  /\ ctor = "returned"
  /\ loader = [k \in SourceKeys |-> "exit"]
  /\ loaded = [k \in SourceKeys |-> <<>>]
  /\ rvFiles = Registry(logMapping, fs)
  /\ loadMutex = ""
  /\ processedLogs = rvFiles
  /\ QueryIdle
  /\ ParseIdle

\* Query is called: its locals are set up.
QueryCall ==
  /\ pc = "idle"
  /\ \E st \in SampleStarts, n \in 0..MaxLimit, ks \in SampleKeyLists,
        ms \in SampleMinSeverities :
       /\ start' = st /\ entries' = n /\ logKeys' = ks /\ minSeverity' = ms
       /\ task' = [i \in 1..Len(ks) |-> "none"]
  /\ pc' = "filter"
  /\ nextKey' = 1
  /\ mutex' = 0
  /\ processedFiles' = EmptyMap
  /\ fileOrderByFirstLog' = <<>>
  /\ rv' = <<>>
  /\ UNCHANGED << pvars, lvars, prev, processedLogs >>

\* One turn of the range loop over logKeys: a goroutine is started for a
\* key of the registry, none for another key.
Launch ==
  /\ pc = "filter"
  /\ nextKey <= Len(logKeys)
  /\ task' = [task EXCEPT ![nextKey] =
                IF lookup(processedLogs, logKeys[nextKey]).ok
                THEN "run" ELSE "none"]
  /\ nextKey' = nextKey + 1
  /\ UNCHANGED << pvars, lvars, prev, processedLogs, pc, start, entries, logKeys, minSeverity,
                  mutex, processedFiles, fileOrderByFirstLog, rv >>

\* TaskLock with no mutex.Lock(): the goroutine goes on to its store.
TaskLock_noMutex(i) ==
  /\ pc = "filter"
  /\ task[i] = "run"
  /\ mutex' = i
  /\ task' = [task EXCEPT ![i] = "locked"]
  /\ UNCHANGED << pvars, lvars, prev, processedLogs, pc, start, entries, logKeys,
                  minSeverity, nextKey, processedFiles, fileOrderByFirstLog,
                  rv >>

\* A filter goroutine runs its loop and takes the mutex.
TaskLock(i) ==
  /\ pc = "filter"
  /\ task[i] = "run"
  /\ mutex = 0
  /\ mutex' = i
  /\ task' = [task EXCEPT ![i] = "locked"]
  /\ UNCHANGED << pvars, lvars, prev, processedLogs, pc, start, entries, logKeys, minSeverity,
                  nextKey, processedFiles, fileOrderByFirstLog, rv >>

\* TaskStore storing into the registry, not into the map of the query.
TaskStore_intoRegistry(i) ==
  /\ pc = "filter"
  /\ task[i] = "locked"
  /\ processedLogs' =
       put(processedLogs, logKeys[i],
           filterLogs(lookup(processedLogs, logKeys[i]).logs,
                      start, entries, minSeverity))
  /\ mutex' = 0
  /\ task' = [task EXCEPT ![i] = "done"]
  /\ UNCHANGED << pvars, lvars, prev, processedFiles, pc, start, entries, logKeys,
                  minSeverity, nextKey, fileOrderByFirstLog, rv >>

\* It stores its list, and its deferred calls release the mutex and the
\* wait group.
TaskStore(i) ==
  /\ pc = "filter"
  /\ task[i] = "locked"
  /\ processedFiles' =
       put(processedFiles, logKeys[i],
           filterLogs(lookup(processedLogs, logKeys[i]).logs,
                      start, entries, minSeverity))
  /\ mutex' = 0
  /\ task' = [task EXCEPT ![i] = "done"]
  /\ UNCHANGED << pvars, lvars, prev, processedLogs, pc, start, entries, logKeys, minSeverity,
                  nextKey, fileOrderByFirstLog, rv >>

\* wg.Wait() returns: every goroutine started has finished.
WaitReturn ==
  /\ pc = "filter"
  /\ nextKey > Len(logKeys)
  /\ \A i \in DOMAIN task : task[i] \in {"none", "done"}
  /\ pc' = "merge"
  /\ UNCHANGED << pvars, lvars, prev, processedLogs, start, entries, logKeys, minSeverity,
                  nextKey, task, mutex, processedFiles, fileOrderByFirstLog,
                  rv >>

\* ------------------------------------------------------------- logMerge
\* ByTime.Less
Less(x, y) == x.Time < y.Time

\* The inner loop of the insertion sort: x, put after s, moves left while
\* it is Less than its left neighbour.
RECURSIVE insertLast(_, _)
insertLast(s, x) ==
  IF s = <<>> THEN <<x>>
  ELSE IF Less(x, s[Len(s)])
  THEN Append(insertLast(SubSeq(s, 1, Len(s) - 1), x), s[Len(s)])
  ELSE Append(s, x)

RECURSIVE sortPrefix(_, _)
sortPrefix(s, n) ==
  IF n = 0 THEN <<>> ELSE insertLast(sortPrefix(s, n - 1), s[n])

\* sortByTime leaving the list as it is.
sortByTime_unsorted(s) == s

\* sort.Sort(ByTime(s)): an insertion sort for a list of fewer than 12.
sortByTime(s) == sortPrefix(s, Len(s))

\* The orders in which a range over a map of these keys may visit them.
IterationOrders(keys) ==
  { o \in [1..Cardinality(keys) -> keys] :
      \A i, j \in 1..Cardinality(keys) : i # j => o[i] # o[j] }

\* The first loop of logMerge, over the keys in the order given.
RECURSIVE firstLogs(_, _)
firstLogs(logsByKey, order) ==
  IF order = <<>> THEN <<>>
  ELSE IF Len(logsByKey[Head(order)]) = 0
  THEN firstLogs(logsByKey, Tail(order))
  ELSE <<logsByKey[Head(order)][1]>> \o firstLogs(logsByKey, Tail(order))

\* rangeTime when logMerge leaves it nil.
NilTime == -1

\* rangeEnd going on over a log at endTime itself.
RECURSIVE rangeEnd_inclusive(_, _, _)
rangeEnd_inclusive(logs, endTime, i) ==
  IF i < Len(logs)
  THEN IF logs[i + 1].Time > endTime THEN i
       ELSE rangeEnd_inclusive(logs, endTime, i + 1)
  ELSE i

\* The loop of getRangeLogs from i: the first index whose log is not
\* before endTime, or len(logs).
RECURSIVE rangeEnd(_, _, _)
rangeEnd(logs, endTime, i) ==
  IF i < Len(logs)
  THEN IF ~After(endTime, logs[i + 1].Time) THEN i
       ELSE rangeEnd(logs, endTime, i + 1)
  ELSE i

\* getRangeLogs: [panic, logs, endIndex]; logs[:endIndex] panics for an
\* endIndex below 0 or beyond the list.
getRangeLogs(logs, endTime, limit) ==
  LET endIndex == IF endTime = NilTime
                  THEN (IF limit < Len(logs) THEN limit ELSE Len(logs))
                  ELSE rangeEnd(logs, endTime, 1)
  IN IF endIndex < 0 \/ endIndex > Len(logs)
     THEN [panic |-> TRUE, logs |-> <<>>, endIndex |-> endIndex]
     ELSE [panic |-> FALSE, logs |-> SubSeq(logs, 1, endIndex),
           endIndex |-> endIndex]

\* logMerge is called: the heads are collected, in the order the range
\* over the map yields them, and sorted.
MergeCall ==
  /\ pc = "merge"
  /\ \E order \in IterationOrders(DOMAIN processedFiles) :
       fileOrderByFirstLog' = sortByTime(firstLogs(processedFiles, order))
  /\ rv' = <<>>
  /\ pc' = "loop"
  /\ UNCHANGED << pvars, lvars, prev, processedLogs, start, entries, logKeys, minSeverity,
                  nextKey, task, mutex, processedFiles >>

\* One turn of the loop of logMerge.
MergeStep ==
  /\ pc = "loop"
  /\ Len(fileOrderByFirstLog) > 0
  /\ LET firstLog == fileOrderByFirstLog[1]
         rangeTime == IF Len(fileOrderByFirstLog) > 1
                      THEN fileOrderByFirstLog[2].Time ELSE NilTime
         key == firstLog.Key
         r == getRangeLogs(processedFiles[key], rangeTime, entries - Len(rv))
         rest == SubSeq(processedFiles[key], r.endIndex + 1,
                        Len(processedFiles[key]))
     IN IF r.panic
        THEN /\ pc' = "panic"
             /\ UNCHANGED << processedFiles, fileOrderByFirstLog, rv >>
        ELSE /\ rv' = rv \o r.logs
             /\ IF Len(rv') = entries
                THEN /\ pc' = "done"
                     /\ processedFiles' = [processedFiles EXCEPT ![key] = rest]
                     /\ UNCHANGED fileOrderByFirstLog
                ELSE IF Len(rest) = 0
                THEN /\ pc' = "loop"
                     /\ fileOrderByFirstLog' = Tail(fileOrderByFirstLog)
                     /\ processedFiles' =
                          deleteKey([processedFiles EXCEPT ![key] = rest], key)
                ELSE /\ pc' = "loop"
                     /\ fileOrderByFirstLog' =
                          sortByTime([fileOrderByFirstLog EXCEPT ![1] = rest[1]])
                     /\ processedFiles' = [processedFiles EXCEPT ![key] = rest]
  /\ UNCHANGED << pvars, lvars, prev, processedLogs, start, entries, logKeys, minSeverity,
                  nextKey, task, mutex >>

\* The loop ends with no head left and logMerge returns rv.
MergeExit ==
  /\ pc = "loop"
  /\ Len(fileOrderByFirstLog) = 0
  /\ pc' = "done"
  /\ UNCHANGED << pvars, lvars, prev, processedLogs, start, entries, logKeys, minSeverity,
                  nextKey, task, mutex, processedFiles, fileOrderByFirstLog,
                  rv >>

\* Query returns the rendering of rv; its locals are gone.
QueryReturn ==
  /\ pc = "done"
  /\ pc' = "idle"
  /\ start' = 0 /\ entries' = 0 /\ logKeys' = <<>> /\ minSeverity' = Undefined
  /\ nextKey' = 1
  /\ task' = <<>>
  /\ mutex' = 0
  /\ processedFiles' = EmptyMap
  /\ fileOrderByFirstLog' = <<>>
  /\ rv' = <<>>
  /\ prev' = NoResult
  /\ UNCHANGED << pvars, lvars, processedLogs >>

Next ==
  \/ QueryCall
  \/ Launch
  \/ \E i \in DOMAIN task : TaskLock(i)
  \/ \E i \in DOMAIN task : TaskStore(i)
  \/ WaitReturn
  \/ MergeCall
  \/ MergeStep
  \/ MergeExit
  \/ QueryReturn

Spec == Init /\ [][Next]_vars

\* Query returns and is called again with the same arguments: what it
\* returned is kept for the comparison.
Requery ==
  /\ pc = "done"
  /\ ~prev.returned
  /\ prev' = [returned |-> TRUE, logs |-> rv]
  /\ pc' = "filter"
  /\ task' = [i \in 1..Len(logKeys) |-> "none"]
  /\ nextKey' = 1
  /\ mutex' = 0
  /\ processedFiles' = EmptyMap
  /\ fileOrderByFirstLog' = <<>>
  /\ rv' = <<>>
  /\ UNCHANGED << pvars, lvars, processedLogs, start, entries, logKeys, minSeverity >>

NextTwice == Next \/ Requery

\* Queries, each possibly repeated once with the same arguments.
SpecTwice == Init /\ [][NextTwice]_vars

\* ------------------------------------------------- NewLogQuery, processFiles
\* The lines a file read by the loader may hold as its line i: two
\* well-formed lines, a line without the bracket pattern, a line whose
\* timestamp has an hour the layout does not take, a line with a tag that
\* is no level, and a well-formed line too long for the scanner.
LoadLines(i) ==
  { mkLine(1, "info", i),
    mkLine(2, "FATAL", i),
    << "msg" \o ToString(i), " ", "without brackets" >>,
    << "[", "02/28/2020 13:00:00.00", "]", "[", "error", "]", " ",
       "msg" \o ToString(i) >>,
    << "[", tsTok(1), "]", "[", "notice", "]", " ", "msg" \o ToString(i) >>,
    << "[", tsTok(2), "]", "[", "error", "]", " ", LongText >> }

\* NewLogQuery is called with the mapping, over a sampled file system.
InitLoad ==
  /\ logMapping = [k \in SourceKeys |-> pathOf(k)]
  /\ fs \in FileSystems(LoadLines)
  /\ ctor = "range"
  /\ loader = [k \in SourceKeys |-> "none"]
  /\ loaded = [k \in SourceKeys |-> <<>>]
  /\ rvFiles = EmptyMap
  /\ loadMutex = ""
  /\ processedLogs = EmptyMap
  /\ QueryIdle
  /\ ParseIdle

\* One turn of the range loop over logMapping: wg.Add(1) and a goroutine
\* for a key not yet visited.
LoadLaunch(k) ==
  /\ ctor = "range"
  /\ loader[k] = "none"
  /\ loader' = [loader EXCEPT ![k] = "run"]
  /\ UNCHANGED << pvars, qvars, logMapping, fs, ctor, loaded, rvFiles, loadMutex >>

\* LoaderRun with the return after an error left out.
LoaderRun_noReturn(k) ==
  /\ loader[k] = "run"
  /\ loaded' = [loaded EXCEPT ![k] = processFile(fs[logMapping[k]], k).logs]
  /\ loader' = [loader EXCEPT ![k] = "parsed"]
  /\ UNCHANGED << pvars, qvars, logMapping, fs, ctor, rvFiles, loadMutex >>

\* A loader goroutine calls processFile: with an error it prints it and
\* returns (wg.Done is deferred), otherwise it goes on with the logs.
LoaderRun(k) ==
  /\ loader[k] = "run"
  /\ loader' = [loader EXCEPT ![k] =
                  IF processFile(fs[logMapping[k]], k).err # ""
                  THEN "exit" ELSE "parsed"]
  /\ loaded' = [loaded EXCEPT ![k] =
                  IF processFile(fs[logMapping[k]], k).err # ""
                  THEN @ ELSE processFile(fs[logMapping[k]], k).logs]
  /\ UNCHANGED << pvars, qvars, logMapping, fs, ctor, rvFiles, loadMutex >>

\* mutex.Lock()
LoaderLock(k) ==
  /\ loader[k] = "parsed"
  /\ loadMutex = ""
  /\ loadMutex' = k
  /\ loader' = [loader EXCEPT ![k] = "locked"]
  /\ UNCHANGED << pvars, qvars, logMapping, fs, ctor, loaded, rvFiles >>

\* rv[fileKey] = logs, then the deferred mutex.Unlock() and wg.Done().
LoaderStore(k) ==
  /\ loader[k] = "locked"
  /\ rvFiles' = put(rvFiles, k, loaded[k])
  /\ loadMutex' = ""
  /\ loader' = [loader EXCEPT ![k] = "exit"]
  /\ UNCHANGED << pvars, qvars, logMapping, fs, ctor, loaded >>

\* The range loop has visited every key: processFiles is at wg.Wait().
RangeEnd ==
  /\ ctor = "range"
  /\ \A k \in DOMAIN logMapping : loader[k] # "none"
  /\ ctor' = "wait"
  /\ UNCHANGED << pvars, qvars, logMapping, fs, loader, loaded, rvFiles, loadMutex >>

\* ConstructReturn with no wg.Wait(): processFiles returns after the range.
ConstructReturn_noWait ==
  /\ ctor = "wait"
  /\ ctor' = "returned"
  /\ processedLogs' = rvFiles
  /\ UNCHANGED << pvars, pc, start, entries, logKeys, minSeverity, nextKey,
                  task, mutex, processedFiles, fileOrderByFirstLog, rv, prev,
                  logMapping, fs, loader, loaded, rvFiles, loadMutex >>

\* wg.Wait() returns, processFiles returns rv and NewLogQuery returns the
\* LogQuery holding it, with a nil error.
ConstructReturn ==
  /\ ctor = "wait"
  /\ \A k \in DOMAIN logMapping : loader[k] = "exit"
  /\ ctor' = "returned"
  /\ processedLogs' = rvFiles
  /\ UNCHANGED << pvars, pc, start, entries, logKeys, minSeverity, nextKey,
                  task, mutex, processedFiles, fileOrderByFirstLog, rv, prev,
                  logMapping, fs, loader, loaded, rvFiles, loadMutex >>

NextLoad ==
  \/ \E k \in SourceKeys : LoadLaunch(k)
  \/ \E k \in SourceKeys : LoaderRun(k)
  \/ \E k \in SourceKeys : LoaderLock(k)
  \/ \E k \in SourceKeys : LoaderStore(k)
  \/ RangeEnd
  \/ ConstructReturn

\* Construction, over files of any of the sampled lines.
SpecLoad == InitLoad /\ [][NextLoad]_vars

\* ------------------------------------------- construction, then queries
\* The lines a file of the whole run may hold as its line i: a line per
\* level, in some spelling, a line with a tag that is no level and a line
\* with an empty tag.
LifeLines(i) ==
  { mkLine(1, "debug", i),
    mkLine(1, "Info", i),
    mkLine(2, "WARN", i),
    mkLine(2, "error", i),
    mkLine(2, "FATAL", i),
    mkRaw(<<tsTok(1)>>, <<"notice">>, <<"msg" \o ToString(i)>>),
    mkRaw(<<tsTok(2)>>, <<>>, <<"msg" \o ToString(i)>>) }

\* The lines of the longest file of the whole run.
MaxLifeLen == 2

\* What is at the path of "b" in the whole run: no file, or a file of one
\* line, well-formed or of a tag that is no level.
LifeSecondFiles ==
  { NoFile,
    [exists |-> TRUE, lines |-> << mkLine(1, "Info", 1) >>],
    [exists |-> TRUE,
     lines |-> << mkRaw(<<tsTok(1)>>, <<"notice">>, <<"msg1">>) >>] }

\* The file systems of the whole run: a file of MaxLifeLen lines at the
\* path of "a", and one of LifeSecondFiles at the path of "b".
LifeFileSystems ==
  { [p \in {pathOf(k) : k \in SourceKeys} |->
       IF p = pathOf("a") THEN fa ELSE fb] :
      fa \in FilesOfLen(LifeLines, MaxLifeLen), fb \in LifeSecondFiles }

\* The key lists of the queries of the whole run: a key may come twice.
LifeKeyLists ==
  { <<"a", "a">>, <<"a", "b", "a">>, <<"b", UnknownKey, "b">> }

\* NewLogQuery is called with the mapping, over a file system of the whole
\* run.
InitLife ==
  /\ logMapping = [k \in SourceKeys |-> pathOf(k)]
  /\ fs \in LifeFileSystems
  /\ ctor = "range"
  /\ loader = [k \in SourceKeys |-> "none"]
  /\ loaded = [k \in SourceKeys |-> <<>>]
  /\ rvFiles = EmptyMap
  /\ loadMutex = ""
  /\ processedLogs = EmptyMap
  /\ QueryIdle
  /\ ParseIdle

\* Query is called on the LogQuery that NewLogQuery returned, with a key
\* list of the whole run.
QueryCallLife ==
  /\ ctor = "returned"
  /\ pc = "idle"
  /\ \E st \in SampleStarts, n \in 0..MaxLimit, ks \in LifeKeyLists,
        ms \in SampleMinSeverities :
       /\ start' = st /\ entries' = n /\ logKeys' = ks /\ minSeverity' = ms
       /\ task' = [i \in 1..Len(ks) |-> "none"]
  /\ pc' = "filter"
  /\ nextKey' = 1
  /\ mutex' = 0
  /\ processedFiles' = EmptyMap
  /\ fileOrderByFirstLog' = <<>>
  /\ rv' = <<>>
  /\ UNCHANGED << pvars, lvars, prev, processedLogs >>

NextLife ==
  \/ NextLoad
  \/ QueryCallLife
  \/ Launch
  \/ \E i \in DOMAIN task : TaskLock(i)
  \/ \E i \in DOMAIN task : TaskStore(i)
  \/ WaitReturn
  \/ MergeCall
  \/ MergeStep
  \/ MergeExit
  \/ QueryReturn

\* Construction over a file system, then queries on what it returned.
SpecLife == InitLife /\ [][NextLife]_vars

\* ------------------------------------------------------------ processLine
\* The longest message of a sampled raw line, in chunks.
MaxMsgLen == 3

\* The chunks of the messages of the sampled raw lines: the characters the
\* pattern names, and a word.
MsgChunks == {"[", "]", " ", "x"}

\* The messages of at most n chunks.
MessagesUpTo(n) == UNION { [1..len -> MsgChunks] : len \in 0..n }

\* The texts between the first pair of brackets: two timestamps the layout
\* takes, one whose hour it does not take, and no text.
SampleStamps == { <<tsTok(1)>>, <<tsTok(12)>>, <<"02/28/2020 13:00:00.00">>, <<>> }

\* The texts between the second pair of brackets: the five levels in some
\* spelling, words that are no level, and no text.
SampleTagTexts ==
  { <<"debug">>, <<"Info">>, <<"WARN">>, <<"error">>, <<"FATAL">>,
    <<"notice">>, <<"warning">>, <<"undefined">>, <<>> }

\* The raw lines processLine is called with.
ParseLines ==
  { mkRaw(st, tg, m) : st \in SampleStamps, tg \in SampleTagTexts,
                       m \in MessagesUpTo(MaxMsgLen) }

\* The query and the construction at rest, for the calls of processLine.
InitParse ==
  /\ logMapping = [k \in SourceKeys |-> pathOf(k)]
  /\ fs = [p \in {pathOf(k) : k \in SourceKeys} |-> NoFile]
  /\ ctor = "range"
  /\ loader = [k \in SourceKeys |-> "none"]
  /\ loaded = [k \in SourceKeys |-> <<>>]
  /\ rvFiles = EmptyMap
  /\ loadMutex = ""
  /\ processedLogs = EmptyMap
  /\ QueryIdle
  /\ rawLog \in ParseLines
  /\ parseOut = NotParsed

\* processLine(rawLog, key) is called and returns.
ParseLine ==
  /\ ~parseOut.called
  /\ \E k \in SourceKeys :
       parseOut' = [called |-> TRUE, err |-> processLine(rawLog, k).err,
                    log |-> processLine(rawLog, k).log]
  /\ UNCHANGED << qvars, lvars, rawLog >>

NextParse == ParseLine

\* Calls of processLine, one per sampled raw line.
SpecParse == InitParse /\ [][NextParse]_vars

\* ========================================================== properties
\* s is non-decreasing by timestamp.
SortedByTime(s) ==
  \A i, j \in DOMAIN s : i < j => s[i].Time <= s[j].Time

\* Every source of the registry is non-decreasing by timestamp.
RegistrySorted == \A k \in DOMAIN processedLogs : SortedByTime(processedLogs[k])

\* The distinct requested keys that are in the registry.
Requested == { logKeys[i] : i \in DOMAIN logKeys } \cap DOMAIN processedLogs

\* The per-source scan rule: of the first entries (the limit) entries of
\* source k, those strictly after start and of severity at least minSeverity.
Matches(k) ==
  LET logs == processedLogs[k]
      pass(e) == e.Time > start /\ e.Severity >= minSeverity
  IN SelectSeq(SubSeq(logs, 1, Min(entries, Len(logs))), pass)

RECURSIVE sumMatches(_)
sumMatches(keys) ==
  IF keys = {} THEN 0
  ELSE LET k == CHOOSE x \in keys : TRUE
       IN Len(Matches(k)) + sumMatches(keys \ {k})

\* S: the sum of the per-source matches of the query under way.
TotalMatches == sumMatches(Requested)

\* The positions of entry e in list s.
PositionsIn(s, e) == { i \in DOMAIN s : s[i] = e }

\* C1: over a registry whose sources are each non-decreasing by timestamp,
\* the output of the merge is non-decreasing by timestamp at every moment:
\* no entry is emitted with a timestamp earlier than one emitted before it.
C1_MergeOutputSorted == RegistrySorted => SortedByTime(rv)

\* C1 has happened: a finished merge of two sources, the later entries of
\* one emitted after an entry of the other.
C1_Witness ==
  /\ pc = "done" /\ RegistrySorted
  /\ \E i, j \in DOMAIN rv :
       i < j /\ rv[i].Key # rv[j].Key /\ rv[i].Time < rv[j].Time
  /\ \E i, j \in DOMAIN rv : i < j /\ rv[i].Key = "b" /\ rv[j].Key = "a"

\* C2: a Query that has come to its end has returned, and min(S, limit)
\* entries: never more than limit, whichever source supplied the last run.
C2_ResultCount ==
  pc \in {"done", "panic"} =>
    /\ pc = "done"
    /\ Len(rv) = Min(TotalMatches, entries)

\* C3: over sorted sources, a Query that has come to its end has returned
\* the first min(S, limit) entries of the sorted union of the per-source
\* matches, up to the order of equal timestamps: each returned entry is a
\* match of a requested source, none is returned twice, the entries of a
\* source keep their order, no match left out is earlier than a returned
\* entry, and with S <= limit every match is returned.
C3_MergedPrefix ==
  (RegistrySorted /\ pc \in {"done", "panic"}) =>
    /\ pc = "done"
    /\ Len(rv) = Min(TotalMatches, entries)
    /\ SortedByTime(rv)
    /\ \A i \in DOMAIN rv :
         /\ rv[i].Key \in Requested
         /\ PositionsIn(Matches(rv[i].Key), rv[i]) # {}
    /\ \A i, j \in DOMAIN rv : i # j => rv[i] # rv[j]
    /\ \A i, j \in DOMAIN rv :
         (i < j /\ rv[i].Key = rv[j].Key) =>
           \A x \in PositionsIn(Matches(rv[i].Key), rv[i]),
              y \in PositionsIn(Matches(rv[j].Key), rv[j]) : x < y
    /\ \A k \in Requested : \A x \in DOMAIN Matches(k) :
         PositionsIn(rv, Matches(k)[x]) = {} =>
           /\ TotalMatches > entries
           /\ \A i \in DOMAIN rv : rv[i].Time <= Matches(k)[x].Time

\* C4: a Query called again with the same arguments, on the same engine,
\* comes to its end as the first call did and returns the same result.
C4_SameResultTwice ==
  (prev.returned /\ pc \in {"done", "panic"}) =>
    /\ pc = "done"
    /\ rv = prev.logs

\* C5: no step of a Query changes the registry: its key set and, per key,
\* the length, order and field values of its list.
C5_RegistryUnchanged == [][processedLogs' = processedLogs]_vars

\* C5 has happened: a finished Query whose merge emitted entries and
\* deleted an exhausted source from its own map.
C5_Witness ==
  /\ pc = "done"
  /\ rv # <<>>
  /\ \E k \in Requested : k \notin DOMAIN processedFiles /\ processedLogs[k] # <<>>
  /\ \E k \in Requested : Len(Matches(k)) < Len(processedLogs[k])

\* C7: every entry the merge has emitted has a timestamp strictly after
\* start and a severity of at least minSeverity; with minSeverity = Fatal
\* every one is Fatal.
C7_FilterRespected ==
  \A i \in DOMAIN rv :
    /\ rv[i].Time > start
    /\ rv[i].Severity >= minSeverity
    /\ minSeverity = Fatal => rv[i].Severity = Fatal

\* C7 has happened: a Query of minSeverity Fatal has returned entries and
\* left out a Fatal entry at start itself and a lower entry after start.
C7_Witness ==
  /\ pc = "done" /\ rv # <<>> /\ minSeverity = Fatal
  /\ \E k \in Requested : \E i \in 1..Min(entries, Len(processedLogs[k])) :
       processedLogs[k][i].Time = start /\ processedLogs[k][i].Severity = Fatal
  /\ \E k \in Requested : \E i \in 1..Min(entries, Len(processedLogs[k])) :
       processedLogs[k][i].Time > start /\ processedLogs[k][i].Severity < Fatal

\* C8: a requested key that is not in the registry starts no filter task
\* and leaves nothing in the map the merge reads: at fan-in the map holds
\* exactly the matches of the requested keys that are in the registry, as
\* for the request without the other keys; a request of none but such
\* keys emits nothing and does not fail.
C8_UnknownKeysIgnored ==
  /\ \A i \in DOMAIN task :
       logKeys[i] \notin DOMAIN processedLogs => task[i] = "none"
  /\ DOMAIN processedFiles \subseteq Requested
  /\ pc = "merge" => processedFiles = [k \in Requested |-> Matches(k)]
  /\ Requested = {} => (rv = <<>> /\ pc # "panic")

\* C8 has happened: a Query naming a key that is not in the registry
\* beside one that is has returned the entries of the latter.
C8_Witness ==
  /\ pc = "done" /\ rv # <<>>
  /\ \E i \in DOMAIN logKeys : logKeys[i] \notin DOMAIN processedLogs

\* C9: a Query with limit 0 emits nothing and does not fail.
C9_LimitZeroEmpty ==
  (pc # "idle" /\ entries = 0) => (rv = <<>> /\ pc # "panic")

\* C9 has happened: a Query with limit 0 has returned, over two requested
\* sources that each hold an entry passing the time and severity test.
C9_Witness ==
  /\ pc = "done" /\ entries = 0 /\ rv = <<>>
  /\ Cardinality(Requested) = 2
  /\ \A k \in Requested : \E i \in DOMAIN processedLogs[k] :
       processedLogs[k][i].Time > start
         /\ processedLogs[k][i].Severity >= minSeverity

\* The entries of the lines of a file that processLine accepts, in file
\* order.
RECURSIVE AcceptedEntries(_, _)
AcceptedEntries(lines, key) ==
  IF lines = <<>> THEN <<>>
  ELSE (IF processLine(Head(lines), key).err = ""
        THEN <<processLine(Head(lines), key).log>> ELSE <<>>)
       \o AcceptedEntries(Tail(lines), key)

\* The configured keys whose file opens.
OpenableKeys == { k \in DOMAIN logMapping : fs[logMapping[k]].exists }

\* C6: construction does not get stuck (a loader is about to call
\* processFile, or another step can be taken), and once it has returned the key
\* set of the registry is the set of the configured keys whose file opens,
\* each with the whole list its own loader returned.
C6_ConstructionIsolated ==
  /\ ctor # "returned" =>
       \/ \E k \in SourceKeys : loader[k] = "run"
       \/ ENABLED (\/ \E k \in SourceKeys : LoadLaunch(k)
                   \/ \E k \in SourceKeys : LoaderLock(k)
                   \/ \E k \in SourceKeys : LoaderStore(k)
                   \/ RangeEnd
                   \/ ConstructReturn)
  /\ ctor = "returned" =>
       /\ DOMAIN processedLogs = OpenableKeys
       /\ \A k \in OpenableKeys :
            processedLogs[k] = processFile(fs[logMapping[k]], k).logs

\* C6 has happened: construction has returned over a mapping with a file
\* that is not there and a file that holds accepted lines.
C6_Witness ==
  /\ ctor = "returned"
  /\ \E k \in DOMAIN logMapping : ~fs[logMapping[k]].exists
  /\ \E k \in DOMAIN processedLogs : Len(processedLogs[k]) >= 2

\* C10: what processFile returned for a file is the list of the entries of
\* all the lines of the file that processLine accepts, in file order.
C10_LoaderKeepsAccepted ==
  \A k \in OpenableKeys :
    loader[k] \in {"parsed", "locked", "exit"} =>
      loaded[k] = AcceptedEntries(fs[logMapping[k]].lines, k)

\* The five level words, in lower case.
LevelWords == {"debug", "info", "warn", "error", "fatal"}

\* line has the form [<timestamp>][<severity>] <message> of the line format:
\* a timestamp the layout takes, a level word in some spelling, a blank and
\* any message.
InLineFormat(line) ==
  /\ Len(line) >= 7
  /\ line[1] = "[" /\ line[3] = "]" /\ line[4] = "[" /\ line[6] = "]"
  /\ line[7] = " "
  /\ \E h \in HoursParsed : line[2] = tsTok(h)
  /\ toLower(line[5]) \in LevelWords

\* C11: for a line of the line format, whatever its message, processLine
\* succeeds, its verbatim timestamp and severity texts are the first and
\* the second bracket group of the line, and its message is the rest of
\* the line after the blank.
C11_ParserKeepsLine ==
  (parseOut.called /\ InLineFormat(rawLog)) =>
    /\ parseOut.err = ""
    /\ parseOut.log.TimeString = SubSeq(rawLog, 1, 3)
    /\ parseOut.log.SeverityString = SubSeq(rawLog, 4, 6)
    /\ parseOut.log.Log = SubSeq(rawLog, 8, Len(rawLog))

\* C12: once processFiles has returned, every loader task it launched has
\* completed: none is at processFile, at the mutex or at its store, the
\* mutex is free, no store into the result map can be taken any more, and
\* the registry is the map as it was at the return.
C12_ReturnAfterLoaders ==
  ctor = "returned" =>
    /\ \A k \in DOMAIN logMapping : loader[k] = "exit"
    /\ loadMutex = ""
    /\ ~ENABLED (\E k \in SourceKeys : LoaderStore(k))
    /\ processedLogs = rvFiles

\* C12 has happened: processFiles has returned after two loaders stored
\* their lists, both with entries.
C12_Witness ==
  /\ ctor = "returned"
  /\ DOMAIN rvFiles = SourceKeys
  /\ \A k \in SourceKeys : rvFiles[k] # <<>>

\* Entry e passes the time and severity test of the query under way.
Passes(e) == e.Time > start /\ e.Severity >= minSeverity

\* C13: the list a filter task stores for its source is the in-order
\* subsequence of the first (the limit) entries of the source that pass the
\* time and severity test, and every entry the merge emits is among the
\* first (the limit) entries of its source: an entry at a later index is
\* never returned, also when fewer than (the limit) entries matched.
C13_ScanCapByIndex ==
  /\ pc \in {"filter", "merge"} =>
       \A k \in DOMAIN processedFiles :
         /\ processedFiles[k] = Matches(k)
         /\ Len(processedFiles[k]) <= entries
         /\ \A j \in DOMAIN processedFiles[k] :
              \E x \in 1..Min(entries, Len(processedLogs[k])) :
                processedLogs[k][x] = processedFiles[k][j]
  /\ \A j \in DOMAIN rv :
       \E x \in 1..Min(entries, Len(processedLogs[rv[j].Key])) :
         processedLogs[rv[j].Key][x] = rv[j]

\* C13 has happened: a Query of a limit above 0 has returned with fewer
\* than (the limit) matches of a source that holds, past index (the
\* limit), an entry passing the test.
C13_Witness ==
  /\ pc = "done" /\ entries > 0
  /\ \E k \in Requested :
       /\ Len(Matches(k)) < entries
       /\ \E x \in DOMAIN processedLogs[k] :
            x > entries /\ Passes(processedLogs[k][x])

\* The first entries of logs, the first (from - 1) of them in any case and
\* the following ones as long as each is earlier than rt.
LeadingRun(logs, rt, from) ==
  LET ms == { m \in (from - 1)..Len(logs) :
                \A x \in from..m : logs[x].Time < rt }
  IN SubSeq(logs, 1, CHOOSE m \in ms : \A y \in ms : y <= m)

\* A turn of the merge loop is about to be taken.
AtMergeStep == pc = "loop" /\ Len(fileOrderByFirstLog) > 0

\* The remaining budget of the merge: limit - len(rv).
Budget == entries - Len(rv)

\* The list of the winner's source is logs less its first n entries, or
\* the source is gone from the map with nothing left to it.
WinnerListAfter(key, logs, n) ==
  IF key \in DOMAIN processedFiles'
  THEN processedFiles'[key] = SubSeq(logs, n + 1, Len(logs))
  ELSE n = Len(logs)

\* C14 as claimed: a turn of the merge loop emits the leading entries of
\* the winner's source that are earlier than the runner-up's head, or all
\* the entries left to the winner when there is no runner-up, and removes
\* them from the winner's list.
C14_RunBeforeRunnerUp ==
  [][AtMergeStep =>
       LET key == fileOrderByFirstLog[1].Key
           logs == processedFiles[key]
           run == IF Len(fileOrderByFirstLog) > 1
                  THEN LeadingRun(logs, fileOrderByFirstLog[2].Time, 1)
                  ELSE logs
       IN /\ rv' = rv \o run
          /\ WinnerListAfter(key, logs, Len(run))]_vars

\* C14 amended: a turn of the merge loop emits, with a runner-up, the
\* winner's head and the entries following it as long as each is earlier
\* than the runner-up's head; with no runner-up, the first entries left to
\* the winner up to the remaining budget; what it emits it removes from
\* the winner's list.  With no runner-up and a budget below 0 the turn
\* emits nothing and aborts.
C14_HeadAndRunBeforeRunnerUp ==
  [][AtMergeStep =>
       LET key == fileOrderByFirstLog[1].Key
           logs == processedFiles[key]
       IN IF Len(fileOrderByFirstLog) > 1
          THEN LET run == LeadingRun(logs, fileOrderByFirstLog[2].Time, 2)
               IN /\ rv' = rv \o run
                  /\ WinnerListAfter(key, logs, Len(run))
                  /\ pc' # "panic"
          ELSE IF Budget < 0
          THEN pc' = "panic" /\ rv' = rv /\ processedFiles' = processedFiles
          ELSE LET run == SubSeq(logs, 1, Min(Budget, Len(logs)))
               IN /\ rv' = rv \o run
                  /\ WinnerListAfter(key, logs, Len(run))
                  /\ pc' # "panic"]_vars

\* C14 has happened: the merge has emitted the head of a source that was
\* at the time of the head of another source, which is still waiting, and
\* has kept the entries left to the winner.
C14_Witness ==
  /\ pc = "loop" /\ rv # <<>>
  /\ rv[Len(rv)].Key \in DOMAIN processedFiles
  /\ \E h \in DOMAIN fileOrderByFirstLog :
       /\ fileOrderByFirstLog[h].Key # rv[Len(rv)].Key
       /\ fileOrderByFirstLog[h].Time = rv[Len(rv)].Time

\* m2 is m but for the value at key k.
WritesOnly(m, m2, k) ==
  /\ DOMAIN m2 = (DOMAIN m) \cup {k}
  /\ \A x \in (DOMAIN m) \ {k} : m2[x] = m[x]

\* At most one loader and at most one filter task is between its
\* mutex.Lock() and its store, and it is the holder of the mutex; the map
\* processFiles returns and the map the filter tasks leave to the merge are
\* what the files and the arguments alone determine.
WritersExclusive ==
  /\ Cardinality({ k \in SourceKeys : loader[k] = "locked" }) <= 1
  /\ \A k \in SourceKeys : loader[k] = "locked" <=> loadMutex = k
  /\ Cardinality({ i \in DOMAIN task : task[i] = "locked" }) <= 1
  /\ \A i \in DOMAIN task : task[i] = "locked" <=> mutex = i
  /\ (ctor = "returned" /\ pc = "idle") => rvFiles = Registry(logMapping, fs)
  /\ pc = "merge" => processedFiles = [k \in Requested |-> Matches(k)]

\* A step that changes the map of processFiles is the store of the loader
\* holding the mutex, at its own key; a step that changes the map of the
\* filter tasks is the store of the task holding the mutex, at its own key.
WritesOwnKey ==
  /\ rvFiles' # rvFiles =>
       \E k \in SourceKeys :
         /\ loader[k] = "locked" /\ loadMutex = k
         /\ WritesOnly(rvFiles, rvFiles', k)
  /\ (pc = "filter" /\ processedFiles' # processedFiles) =>
       \E i \in DOMAIN task :
         /\ task[i] = "locked" /\ mutex = i
         /\ WritesOnly(processedFiles, processedFiles', logKeys[i])

\* C15: in every interleaving of the loaders of processFiles and of the
\* filter tasks of Query, at most one task at a time is writing the shared
\* map, each task writes only the key of its own source, and the map left
\* at the end is the same whatever the interleaving.
C15_WritesExclusive == []WritersExclusive /\ [][WritesOwnKey]_vars

\* C15 has happened: after two loaders have stored their lists, a filter
\* task holds the mutex of a Query while another has its list ready, and
\* a third has stored.
C15_Witness ==
  /\ DOMAIN rvFiles = SourceKeys
  /\ pc = "filter"
  /\ \E i, j, l \in DOMAIN task :
       task[i] = "locked" /\ task[j] = "run" /\ task[l] = "done"

\* The merge loop is running on only below the limit, and once it is over
\* it has ended normally, with the output at the limit or no source left.
LoopEndsAtLimitOrEmpty ==
  /\ AtMergeStep => Len(rv) < entries
  /\ pc \in {"done", "panic"} =>
       /\ pc = "done"
       /\ Len(rv) = entries \/ fileOrderByFirstLog = <<>>

\* A turn of the merge loop emits at least one entry, of the winner's
\* source.
TurnEmits ==
  AtMergeStep =>
    /\ Len(rv') > Len(rv)
    /\ \A j \in (Len(rv) + 1)..Len(rv') :
         rv'[j].Key = fileOrderByFirstLog[1].Key

\* C16: every turn of the merge loop emits at least one entry of the
\* winner's source, also at a tie of the two first heads, so that the loop
\* comes to its end; and it ends exactly when the output has reached the
\* limit or no source is left.
C16_MergeLoopEnds == []LoopEndsAtLimitOrEmpty /\ [][TurnEmits]_vars

\* The level a tag text names, compared without regard to case, for the
\* spellings of the sampled lines; Undefined for any other text.
LevelNamed(tagText) ==
  CASE tagText \in {<<"debug">>, <<"DEBUG">>} -> Debug
    [] tagText \in {<<"info">>, <<"Info">>, <<"INFO">>} -> Info
    [] tagText \in {<<"warn">>, <<"Warn">>, <<"WARN">>} -> Warn
    [] tagText \in {<<"error">>, <<"ERROR">>} -> Error
    [] tagText \in {<<"fatal">>, <<"Fatal">>, <<"FATAL">>} -> Fatal
    [] OTHER -> Undefined

\* Entry e carries one of the five levels, the one its verbatim tag names.
CarriesLevel(e) ==
  /\ e.Severity \in {Debug, Info, Warn, Error, Fatal}
  /\ Len(e.SeverityString) = 3
  /\ e.Severity = LevelNamed(<<e.SeverityString[2]>>)

\* The tag text of a line [stamp][tag] msg of one stamp and one message
\* chunk.
TagTextOf(line) == SubSeq(line, 5, Len(line) - 3)

\* C17: every entry a loader has parsed, every entry of the registry and
\* every entry a Query has filtered or emitted carries one of the five
\* levels, the one its tag names without regard to case; and of the lines
\* of a file, all with a timestamp the layout takes, the parser has
\* rejected exactly those whose tag, the empty one among them, names no
\* level.
C17_NoUndefinedSeverity ==
  /\ \A k \in SourceKeys : \A j \in DOMAIN loaded[k] : CarriesLevel(loaded[k][j])
  /\ \A k \in DOMAIN rvFiles : \A j \in DOMAIN rvFiles[k] : CarriesLevel(rvFiles[k][j])
  /\ \A k \in DOMAIN processedLogs :
       \A j \in DOMAIN processedLogs[k] : CarriesLevel(processedLogs[k][j])
  /\ \A k \in DOMAIN processedFiles :
       \A j \in DOMAIN processedFiles[k] : CarriesLevel(processedFiles[k][j])
  /\ \A j \in DOMAIN rv : CarriesLevel(rv[j])
  /\ \A k \in OpenableKeys :
       loader[k] \in {"parsed", "locked", "exit"} =>
         LET lines == fs[logMapping[k]].lines
             named == { i \in DOMAIN lines :
                          LevelNamed(TagTextOf(lines[i])) # Undefined }
         IN /\ Len(loaded[k]) = Cardinality(named)
            /\ \A i \in named : \E j \in DOMAIN loaded[k] :
                 /\ loaded[k][j].Log = <<"msg" \o ToString(i)>>
                 /\ loaded[k][j].Severity = LevelNamed(TagTextOf(lines[i]))

\* C17 has happened: a Query has returned entries of a registry built from
\* files holding a line with an empty tag and a line with a tag that names
\* no level.
C17_Witness ==
  /\ pc = "done" /\ rv # <<>>
  /\ \E k \in OpenableKeys : \E i \in DOMAIN fs[logMapping[k]].lines :
       TagTextOf(fs[logMapping[k]].lines[i]) = <<>>
  /\ \E k \in OpenableKeys : \E i \in DOMAIN fs[logMapping[k]].lines :
       TagTextOf(fs[logMapping[k]].lines[i]) = <<"notice">>

\* The sources of the merge's map that have an entry left.
ActiveSources == { k \in DOMAIN processedFiles : processedFiles[k] # <<>> }

\* C18: when a turn of the merge loop begins, the head list holds one
\* entry per source that has an entry left and none else, the entry of a
\* source is the first one left to it, and the list is ascending by
\* timestamp; a source whose entries have all been emitted is gone from
\* the head list and from the map.
C18_HeadSet ==
  pc = "loop" =>
    /\ { fileOrderByFirstLog[h].Key : h \in DOMAIN fileOrderByFirstLog }
         = ActiveSources
    /\ Len(fileOrderByFirstLog) = Cardinality(ActiveSources)
    /\ \A h \in DOMAIN fileOrderByFirstLog :
         fileOrderByFirstLog[h] = processedFiles[fileOrderByFirstLog[h].Key][1]
    /\ SortedByTime(fileOrderByFirstLog)
    /\ \A k \in Requested :
         (k \in DOMAIN processedFiles /\ processedFiles[k] = <<>>)
           => Matches(k) = <<>>
    /\ \A k \in Requested \ DOMAIN processedFiles :
         /\ Matches(k) # <<>>
         /\ \A x \in DOMAIN Matches(k) : PositionsIn(rv, Matches(k)[x]) # {}

\* C18 has happened: a turn of the merge loop begins after one source has
\* been emitted whole and dropped and another has had its head replaced by
\* its next entry.
C18_Witness ==
  /\ pc = "loop"
  /\ Requested \ DOMAIN processedFiles # {}
  /\ \E h \in DOMAIN fileOrderByFirstLog :
       /\ \E j \in DOMAIN rv : rv[j].Key = fileOrderByFirstLog[h].Key
       /\ fileOrderByFirstLog[h].Time > rv[Len(rv)].Time

\* C19: the remaining budget handed to getRangeLogs is never below 0, the
\* end index of every slice of the merge lies within its list, and no
\* Query aborts: also after a run emitted against a runner-up.
C19_SliceBoundsInRange ==
  /\ pc # "panic"
  /\ AtMergeStep =>
       LET logs == processedFiles[fileOrderByFirstLog[1].Key]
           r == getRangeLogs(logs,
                             IF Len(fileOrderByFirstLog) > 1
                             THEN fileOrderByFirstLog[2].Time ELSE NilTime,
                             Budget)
       IN /\ Budget >= 0
          /\ ~r.panic
          /\ r.endIndex \in 0..Len(logs)

\* The entries of source k in s, in the order of s.
OfSource(s, k) == LET from(e) == e.Key = k IN SelectSeq(s, from)

\* The key list of the query under way names a key of the registry twice.
NamesKeyTwice ==
  \E i, j \in DOMAIN logKeys :
    i # j /\ logKeys[i] = logKeys[j] /\ logKeys[i] \in DOMAIN processedLogs

\* C20: in a Query whose key list names a source more than once, whatever
\* the order in which the filter tasks of that source store, the map holds
\* for the source its matches once, as for the key list without the
\* repetitions; the merge is given one list per distinct requested source,
\* and what it has emitted of a source, followed by what is left of it, is
\* the list of its matches: no entry is returned twice.
C20_DuplicateKeysOnce ==
  NamesKeyTwice =>
    /\ pc = "filter" =>
         \A k \in DOMAIN processedFiles : processedFiles[k] = Matches(k)
    /\ pc = "merge" => DOMAIN processedFiles = Requested
    /\ \A i, j \in DOMAIN rv : i # j => rv[i] # rv[j]
    /\ pc \in {"merge", "loop", "done"} =>
         \A k \in Requested :
           OfSource(rv, k)
             \o (IF k \in DOMAIN processedFiles THEN processedFiles[k] ELSE <<>>)
             = Matches(k)

\* C20 has happened: a Query naming a source twice beside another source
\* has returned, each of its three filter tasks having stored, with
\* entries of the source named twice.
C20_Witness ==
  /\ pc = "done" /\ NamesKeyTwice
  /\ Len(logKeys) = 3
  /\ \A i \in DOMAIN task : task[i] = "done"
  /\ \E i, j \in DOMAIN logKeys :
       /\ i # j /\ logKeys[i] = logKeys[j]
       /\ Len(OfSource(rv, logKeys[i])) >= 2

====
